---------------------------- MODULE Spec2Model ----------------------------
(***************************************************************************)
(* A model of miasm2/core/graph.py: class DiGraph.                         *)
(*                                                                         *)
(* The graph object is the four fields _nodes, _edges, _nodes_succ and     *)
(* _nodes_pred.  Every method is a pure operator on a graph record         *)
(* [nodes, edges, succ, pred]; the actions apply the operators to the      *)
(* object held in the variables.  A method that can raise returns the      *)
(* record [g |-> graph left behind, err |-> name of the exception or ""].  *)
(*                                                                         *)
(* The module is Python 2 code: "raise StopIteration" in the body of the   *)
(* generators predecessors_iter / successors_iter ends the iteration, so   *)
(* the iteration over an unknown node is empty.                            *)
(***************************************************************************)
EXTENDS Integers, Sequences, FiniteSets, TLC

\* ------------------------------------------------------------------ bounds
\* the nodes are 1..NumNodes
NumNodes == 4

\* the edge list is never made longer than MaxEdges
MaxEdges == 3

\* the calls whose history is recorded (specification Spec) take their
\* arguments among the nodes 1..NumCallNodes
NumCallNodes == 3

Node == 1..NumNodes
CallNode == 1..NumCallNodes

\* ------------------------------------------------------------------- state
VARIABLES
    nodes,        \* self._nodes      : set of nodes
    edges,        \* self._edges      : list of (src, dst)
    nodes_succ,   \* self._nodes_succ : dict node -> list of nodes
    nodes_pred,   \* self._nodes_pred : dict node -> list of nodes
    last,         \* the last call made on the object and the exception it raised
    before,       \* the object as it was when the last call was made
    pair,         \* the call before the last one and the object before it,
                  \* kept when the two calls have the same edge arguments
    gen,          \* the frame of the running _reachable_nodes generator
    dom,          \* the frame of the running _compute_generic_dominators
    fp,           \* the last find_path call and what it returned
    dn            \* the frame of the running del_node

gvars == <<nodes, edges, nodes_succ, nodes_pred>>
hvars == <<last, before, pair>>
qvars == <<gen, dom, fp, dn>>
vars == <<nodes, edges, nodes_succ, nodes_pred, last, before, pair, gen, dom, fp, dn>>

\* ----------------------------------------------------- python lists / dicts
NoErr == ""

\* x in lst
In(x, lst) == \E i \in 1..Len(lst) : lst[i] = x

\* lst.count(x)
Count(x, lst) == Cardinality({i \in 1..Len(lst) : lst[i] = x})

\* index of the first occurrence of x in lst (x must occur)
FirstIndex(x, lst) == CHOOSE i \in 1..Len(lst) :
                          lst[i] = x /\ \A j \in 1..(i - 1) : lst[j] /= x

\* lst.remove(x) on a list that holds x: the first occurrence is dropped
ListRemove(lst, x) ==
    LET k == FirstIndex(x, lst)
    IN  [i \in 1..(Len(lst) - 1) |-> IF i < k THEN lst[i] ELSE lst[i + 1]]

\* d[k] = v
DictPut(d, k, v) == [x \in (DOMAIN d) \cup {k} |-> IF x = k THEN v ELSE d[x]]

EmptyDict == [x \in {} |-> <<>>]

Ok(g) == [g |-> g, err |-> NoErr]
Raise(g, e) == [g |-> g, err |-> e]

\* ------------------------------------------------------------ the object
\* DiGraph.__init__
EmptyGraph == [nodes |-> {}, edges |-> <<>>, succ |-> EmptyDict, pred |-> EmptyDict]

\* the object held in the variables
Self == [nodes |-> nodes, edges |-> edges, succ |-> nodes_succ, pred |-> nodes_pred]

\* DiGraph.predecessors / predecessors_iter
predecessors(g, node) == IF node \notin DOMAIN g.pred THEN <<>> ELSE g.pred[node]

\* DiGraph.successors / successors_iter
successors(g, node) == IF node \notin DOMAIN g.succ THEN <<>> ELSE g.succ[node]

\* add_node that empties the lists of a node that is already registered
add_node_resets(g, node) ==
    [nodes |-> g.nodes \cup {node},
     edges |-> g.edges,
     succ  |-> DictPut(g.succ, node, <<>>),
     pred  |-> DictPut(g.pred, node, <<>>)]

\* DiGraph.add_node
add_node(g, node) ==
    IF node \in g.nodes
    THEN g
    ELSE [nodes |-> g.nodes \cup {node},
          edges |-> g.edges,
          succ  |-> DictPut(g.succ, node, <<>>),
          pred  |-> DictPut(g.pred, node, <<>>)]

\* add_edge without its last statement, self._nodes_pred[dst].append(src)
add_edge_no_pred(g, src, dst) ==
    LET g1 == IF src \notin g.nodes THEN add_node(g, src) ELSE g
        g2 == IF dst \notin g1.nodes THEN add_node(g1, dst) ELSE g1
        g3 == [g2 EXCEPT !.edges = Append(g2.edges, <<src, dst>>)]
    IN  IF src \notin DOMAIN g3.succ THEN Raise(g3, "KeyError")
        ELSE Ok([g3 EXCEPT !.succ[src] = Append(g3.succ[src], dst)])

\* add_edge without "if not dst in self._nodes: self.add_node(dst)"
add_edge_no_dst_node(g, src, dst) ==
    LET g2 == IF src \notin g.nodes THEN add_node(g, src) ELSE g
        g3 == [g2 EXCEPT !.edges = Append(g2.edges, <<src, dst>>)]
    IN  IF src \notin DOMAIN g3.succ THEN Raise(g3, "KeyError")
        ELSE LET g4 == [g3 EXCEPT !.succ[src] = Append(g3.succ[src], dst)]
             IN  IF dst \notin DOMAIN g4.pred THEN Raise(g4, "KeyError")
                 ELSE Ok([g4 EXCEPT !.pred[dst] = Append(g4.pred[dst], src)])

\* DiGraph.add_edge
add_edge(g, src, dst) ==
    LET g1 == IF src \notin g.nodes THEN add_node(g, src) ELSE g
        g2 == IF dst \notin g1.nodes THEN add_node(g1, dst) ELSE g1
        g3 == [g2 EXCEPT !.edges = Append(g2.edges, <<src, dst>>)]
    IN  IF src \notin DOMAIN g3.succ THEN Raise(g3, "KeyError")
        ELSE LET g4 == [g3 EXCEPT !.succ[src] = Append(g3.succ[src], dst)]
             IN  IF dst \notin DOMAIN g4.pred THEN Raise(g4, "KeyError")
                 ELSE Ok([g4 EXCEPT !.pred[dst] = Append(g4.pred[dst], src)])

\* add_uniq_edge looking dst up in the predecessors of src
add_uniq_edge_pred(g, src, dst) ==
    IF src \notin DOMAIN g.pred \/ ~In(dst, g.pred[src])
    THEN add_edge(g, src, dst)
    ELSE Ok(g)

\* DiGraph.add_uniq_edge
add_uniq_edge(g, src, dst) ==
    IF src \notin DOMAIN g.succ \/ ~In(dst, g.succ[src])
    THEN add_edge(g, src, dst)
    ELSE Ok(g)

\* del_edge without its last statement, self._nodes_pred[dst].remove(src)
del_edge_keeps_pred(g, src, dst) ==
    IF ~In(<<src, dst>>, g.edges) THEN Raise(g, "ValueError")
    ELSE LET g1 == [g EXCEPT !.edges = ListRemove(g.edges, <<src, dst>>)]
         IN  IF src \notin DOMAIN g1.succ THEN Raise(g1, "KeyError")
             ELSE IF ~In(dst, g1.succ[src]) THEN Raise(g1, "ValueError")
             ELSE Ok([g1 EXCEPT !.succ[src] = ListRemove(g1.succ[src], dst)])

\* del_edge that returns quietly when the edge is not in the list
del_edge_quiet(g, src, dst) ==
    IF ~In(<<src, dst>>, g.edges) THEN Ok(g)
    ELSE LET g1 == [g EXCEPT !.edges = ListRemove(g.edges, <<src, dst>>)]
         IN  IF src \notin DOMAIN g1.succ THEN Raise(g1, "KeyError")
             ELSE IF ~In(dst, g1.succ[src]) THEN Raise(g1, "ValueError")
             ELSE LET g2 == [g1 EXCEPT !.succ[src] = ListRemove(g1.succ[src], dst)]
                  IN  IF dst \notin DOMAIN g2.pred THEN Raise(g2, "KeyError")
                      ELSE IF ~In(src, g2.pred[dst]) THEN Raise(g2, "ValueError")
                      ELSE Ok([g2 EXCEPT !.pred[dst] = ListRemove(g2.pred[dst], src)])

\* lst with its last occurrence of x dropped (x must occur)
ListRemoveLast(lst, x) ==
    LET k == CHOOSE i \in 1..Len(lst) :
                 lst[i] = x /\ \A j \in (i + 1)..Len(lst) : lst[j] /= x
    IN  [i \in 1..(Len(lst) - 1) |-> IF i < k THEN lst[i] ELSE lst[i + 1]]

\* del_edge dropping the last occurrence of dst in self._nodes_succ[src]
del_edge_last_succ(g, src, dst) ==
    IF ~In(<<src, dst>>, g.edges) THEN Raise(g, "ValueError")
    ELSE LET g1 == [g EXCEPT !.edges = ListRemove(g.edges, <<src, dst>>)]
         IN  IF src \notin DOMAIN g1.succ THEN Raise(g1, "KeyError")
             ELSE IF ~In(dst, g1.succ[src]) THEN Raise(g1, "ValueError")
             ELSE LET g2 == [g1 EXCEPT !.succ[src] = ListRemoveLast(g1.succ[src], dst)]
                  IN  IF dst \notin DOMAIN g2.pred THEN Raise(g2, "KeyError")
                      ELSE IF ~In(src, g2.pred[dst]) THEN Raise(g2, "ValueError")
                      ELSE Ok([g2 EXCEPT !.pred[dst] = ListRemove(g2.pred[dst], src)])

\* DiGraph.del_edge
del_edge(g, src, dst) ==
    IF ~In(<<src, dst>>, g.edges) THEN Raise(g, "ValueError")
    ELSE LET g1 == [g EXCEPT !.edges = ListRemove(g.edges, <<src, dst>>)]
         IN  IF src \notin DOMAIN g1.succ THEN Raise(g1, "KeyError")
             ELSE IF ~In(dst, g1.succ[src]) THEN Raise(g1, "ValueError")
             ELSE LET g2 == [g1 EXCEPT !.succ[src] = ListRemove(g1.succ[src], dst)]
                  IN  IF dst \notin DOMAIN g2.pred THEN Raise(g2, "KeyError")
                      ELSE IF ~In(src, g2.pred[dst]) THEN Raise(g2, "ValueError")
                      ELSE Ok([g2 EXCEPT !.pred[dst] = ListRemove(g2.pred[dst], src)])

\* the two loops of del_node: del_edge on each pair of the list in turn,
\* stopping at the first exception
RECURSIVE del_edges(_, _)
del_edges(g, pairs) ==
    IF pairs = <<>> THEN Ok(g)
    ELSE LET r == del_edge(g, pairs[1][1], pairs[1][2])
         IN  IF r.err /= NoErr THEN r ELSE del_edges(r.g, Tail(pairs))

\* del_node without its second loop, over the successors
del_node_preds_only(g, node) ==
    LET g0 == IF node \in g.nodes THEN [g EXCEPT !.nodes = g.nodes \ {node}] ELSE g
        ps == predecessors(g0, node)
    IN  del_edges(g0, [i \in 1..Len(ps) |-> <<ps[i], node>>])

\* del_node without the test "if node in self._nodes" before
\* self._nodes.remove(node)
del_node_strict(g, node) ==
    IF node \notin g.nodes THEN Raise(g, "KeyError")
    ELSE LET g0 == [g EXCEPT !.nodes = g.nodes \ {node}]
             ps == predecessors(g0, node)
             r1 == del_edges(g0, [i \in 1..Len(ps) |-> <<ps[i], node>>])
         IN  IF r1.err /= NoErr THEN r1
             ELSE LET ss == successors(r1.g, node)
                  IN  del_edges(r1.g, [i \in 1..Len(ss) |-> <<node, ss[i]>>])

\* del_node that removes from self._nodes the predecessors of node as well
del_node_with_preds(g, node) ==
    LET g0 == [g EXCEPT !.nodes = g.nodes \ ({node} \cup {p \in g.nodes : In(p, predecessors(g, node))})]
        ps == predecessors(g0, node)
        r1 == del_edges(g0, [i \in 1..Len(ps) |-> <<ps[i], node>>])
    IN  IF r1.err /= NoErr THEN r1
        ELSE LET ss == successors(r1.g, node)
             IN  del_edges(r1.g, [i \in 1..Len(ss) |-> <<node, ss[i]>>])

\* DiGraph.del_node
del_node(g, node) ==
    LET g0 == IF node \in g.nodes THEN [g EXCEPT !.nodes = g.nodes \ {node}] ELSE g
        ps == predecessors(g0, node)
        r1 == del_edges(g0, [i \in 1..Len(ps) |-> <<ps[i], node>>])
    IN  IF r1.err /= NoErr THEN r1
        ELSE LET ss == successors(r1.g, node)
             IN  del_edges(r1.g, [i \in 1..Len(ss) |-> <<node, ss[i]>>])

\* ----------------------------------------------------------------- calls
NoCall == [op |-> "none", src |-> 0, dst |-> 0, err |-> NoErr]
NoGraph == [nodes |-> {0}, edges |-> <<>>, succ |-> EmptyDict, pred |-> EmptyDict]
NoPair == [call |-> NoCall, g |-> NoGraph]

Call(op, src, dst, err) == [op |-> op, src |-> src, dst |-> dst, err |-> err]

\* no generator is running
NoGen == [pc |-> "idle", head |-> 0, cb |-> "none",
          todo |-> {}, reachable |-> {}, out |-> <<>>]

\* no dominator computation is running
NoDom == [pc |-> "idle", kind |-> "none", head |-> 0,
          reach |-> "none", prev |-> "none", next |-> "none",
          nodes |-> {}, dominators |-> EmptyDict, todo |-> {}]

\* no find_path call has returned
NoFp == [pc |-> "idle", src |-> 0, dst |-> 0, cycles_count |-> 0,
         out |-> <<>>, err |-> NoErr]

\* no del_node call is running
NoDel == [pc |-> "idle", node |-> 0, todo |-> <<>>, g |-> NoGraph]

\* the object becomes r.g; the call and its outcome are recorded
Becomes(r, op, src, dst) ==
    /\ nodes' = r.g.nodes
    /\ edges' = r.g.edges
    /\ nodes_succ' = r.g.succ
    /\ nodes_pred' = r.g.pred
    /\ last' = Call(op, src, dst, r.err)
    /\ before' = Self
    /\ pair' = IF /\ last.err = NoErr
                  /\ last.src = src /\ last.dst = dst
                  /\ \/ last.op = "add_edge" /\ op = "add_edge"
                     \/ last.op = "add_edge" /\ op = "del_edge"
                     \/ last.op = "add_uniq_edge" /\ op = "add_uniq_edge"
               THEN [call |-> last, g |-> before]
               ELSE NoPair
    /\ UNCHANGED qvars

Init ==
    /\ nodes = {}
    /\ edges = <<>>
    /\ nodes_succ = EmptyDict
    /\ nodes_pred = EmptyDict
    /\ last = NoCall
    /\ before = NoGraph
    /\ pair = NoPair
    /\ gen = NoGen
    /\ dom = NoDom
    /\ fp = NoFp
    /\ dn = NoDel

AddNode == \E n \in CallNode : Becomes(Ok(add_node(Self, n)), "add_node", n, n)

DelNode == \E n \in CallNode : Becomes(del_node(Self, n), "del_node", n, n)

AddEdge == \E a, b \in CallNode :
    /\ Len(edges) < MaxEdges
    /\ Becomes(add_edge(Self, a, b), "add_edge", a, b)

AddUniqEdge == \E a, b \in CallNode :
    /\ Len(edges) < MaxEdges
    /\ Becomes(add_uniq_edge(Self, a, b), "add_uniq_edge", a, b)

DelEdge == \E a, b \in CallNode : Becomes(del_edge(Self, a, b), "del_edge", a, b)

Next == AddNode \/ DelNode \/ AddEdge \/ AddUniqEdge \/ DelEdge

Spec == Init /\ [][Next]_vars

\* ------------------------------------------------------ _reachable_nodes
\* the set of the elements of a list
Range(lst) == {lst[i] : i \in 1..Len(lst)}

\* the callbacks self.successors_iter ("succ") and self.predecessors_iter
\* ("pred") handed to the generic algorithms
neighbours(g, cb, node) ==
    IF cb = "succ" THEN successors(g, node) ELSE predecessors(g, node)

\* the frame of _reachable_nodes(head, next_cb) before its first step
reachable_nodes(head, cb) ==
    [pc |-> "run", head |-> head, cb |-> cb,
     todo |-> {head}, reachable |-> {}, out |-> <<>>]

\* reachable_step with "todo = set(next_cb(node))" for the loop that adds
\* the neighbours to todo
reachable_step_resets_todo(g, f, node) ==
    IF node \in f.reachable
    THEN [f EXCEPT !.todo = f.todo \ {node}]
    ELSE [f EXCEPT !.todo = Range(neighbours(g, f.cb, node)),
                   !.reachable = f.reachable \cup {node},
                   !.out = Append(f.out, node)]

\* one turn of "while todo" with node the element that todo.pop() returns
reachable_step(g, f, node) ==
    IF node \in f.reachable
    THEN [f EXCEPT !.todo = f.todo \ {node}]
    ELSE [f EXCEPT !.todo = (f.todo \ {node}) \cup Range(neighbours(g, f.cb, node)),
                   !.reachable = f.reachable \cup {node},
                   !.out = Append(f.out, node)]

Idle == gen.pc = "idle" /\ dom.pc = "idle" /\ fp.pc = "idle" /\ dn.pc = "idle"

\* the mutations of the object, made while no query is running
Mutates(r) ==
    /\ Idle
    /\ nodes' = r.g.nodes
    /\ edges' = r.g.edges
    /\ nodes_succ' = r.g.succ
    /\ nodes_pred' = r.g.pred
    /\ UNCHANGED <<hvars, qvars>>

Build ==
    \/ \E n \in Node : Mutates(Ok(add_node(Self, n)))
    \/ \E n \in Node : Mutates(del_node(Self, n))
    \/ \E a, b \in Node : Len(edges) < MaxEdges /\ Mutates(add_edge(Self, a, b))
    \/ \E a, b \in Node : Len(edges) < MaxEdges /\ Mutates(add_uniq_edge(Self, a, b))
    \/ \E a, b \in Node : Mutates(del_edge(Self, a, b))

\* reachable_sons(head) / reachable_parents(leaf) is called
ReachStart == \E h \in Node, cb \in {"succ", "pred"} :
    /\ Idle
    /\ gen' = reachable_nodes(h, cb)
    /\ UNCHANGED <<gvars, hvars, dom, fp, dn>>

\* the consumer asks for the next node: the loop runs up to the next yield
ReachStep == \E node \in gen.todo :
    /\ gen.pc = "run"
    /\ gen' = reachable_step(Self, gen, node)
    /\ UNCHANGED <<gvars, hvars, dom, fp, dn>>

\* todo is empty: the generator is exhausted
ReachEnd ==
    /\ gen.pc = "run"
    /\ gen.todo = {}
    /\ gen' = [gen EXCEPT !.pc = "done"]
    /\ UNCHANGED <<gvars, hvars, dom, fp, dn>>

\* the exhausted generator is dropped
ReachClose ==
    /\ gen.pc = "done"
    /\ dom.pc = "idle"
    /\ gen' = NoGen
    /\ UNCHANGED <<gvars, hvars, dom, fp, dn>>

NextReach == Build \/ ReachStart \/ ReachStep \/ ReachEnd \/ ReachClose

SpecReach == Init /\ [][NextReach]_vars /\ WF_vars(ReachStep \/ ReachEnd)

\* --------------------------------------------------------------- find_path
\* the deepest recursion that is followed; beyond it the interpreter
\* raises RuntimeError (maximum recursion depth exceeded)
MaxDepth == 16

\* the largest cycles_count passed to find_path
MaxCycles == 1

\* done.get(dst, 0)
DictGet(d, k, default) == IF k \in DOMAIN d THEN d[k] ELSE default

\* Extended without the test "if path and path[0] == src": every path of
\* the list with dst appended
Extended_all(paths, src, dst) ==
    [i \in 1..Len(paths) |-> Append(paths[i], dst)]

\* the paths of a list that are not empty and start with src, each with
\* dst appended
Extended(paths, src, dst) ==
    LET keep == SelectSeq(paths, LAMBDA path : path /= <<>> /\ path[1] = src)
    IN  [i \in 1..Len(keep) |-> Append(keep[i], dst)]

\* the paths of a list that are not in out, each once
RECURSIVE NotIn(_, _)
NotIn(paths, out) ==
    IF paths = <<>> THEN <<>>
    ELSE IF In(paths[1], out) THEN NotIn(Tail(paths), out)
    ELSE <<paths[1]>> \o NotIn(Tail(paths), Append(out, paths[1]))

RECURSIVE find_path(_, _, _, _, _, _)
RECURSIVE find_path_loop(_, _, _, _, _, _, _, _)

\* find_path_loop appending a path only when it is not in out yet
find_path_loop_uniq(g, src, dst, cycles_count, done, depth, preds, out) ==
    IF preds = <<>> THEN [out |-> out, err |-> NoErr]
    ELSE LET done_n == DictPut(done, dst, DictGet(done, dst, 0) + 1)
             r == find_path(g, src, preds[1], cycles_count, done_n, depth + 1)
         IN  IF r.err /= NoErr THEN r
             ELSE find_path_loop(g, src, dst, cycles_count, done, depth, Tail(preds),
                                 out \o NotIn(Extended(r.out, src, dst), out))

\* the loop "for node in self.predecessors(dst)" of find_path over the
\* predecessors preds still to visit, with out the paths found so far
find_path_loop(g, src, dst, cycles_count, done, depth, preds, out) ==
    IF preds = <<>> THEN [out |-> out, err |-> NoErr]
    ELSE LET done_n == DictPut(done, dst, DictGet(done, dst, 0) + 1)
             r == find_path(g, src, preds[1], cycles_count, done_n, depth + 1)
         IN  IF r.err /= NoErr THEN r
             ELSE find_path_loop(g, src, dst, cycles_count, done, depth, Tail(preds),
                                 out \o Extended(r.out, src, dst))

\* find_path without the test of done[dst] against cycles_count
find_path_no_budget(g, src, dst, cycles_count, done, depth) ==
    IF depth > MaxDepth THEN [out |-> <<>>, err |-> "RuntimeError"]
    ELSE IF src = dst THEN [out |-> << <<src>> >>, err |-> NoErr]
    ELSE find_path_loop(g, src, dst, cycles_count, done, depth,
                        predecessors(g, dst), <<>>)

\* DiGraph.find_path, at recursion depth depth
find_path(g, src, dst, cycles_count, done, depth) ==
    IF depth > MaxDepth THEN [out |-> <<>>, err |-> "RuntimeError"]
    ELSE IF dst \in DOMAIN done /\ done[dst] > cycles_count
         THEN [out |-> << <<>> >>, err |-> NoErr]
    ELSE IF src = dst THEN [out |-> << <<src>> >>, err |-> NoErr]
    ELSE find_path_loop(g, src, dst, cycles_count, done, depth,
                        predecessors(g, dst), <<>>)

\* find_path(src, dst, cycles_count) is called and returns
FindPath == \E src, dst \in Node, k \in 0..MaxCycles :
    /\ Idle
    /\ LET r == find_path(Self, src, dst, k, EmptyDict, 1)
       IN  fp' = [pc |-> "done", src |-> src, dst |-> dst, cycles_count |-> k,
                  out |-> r.out, err |-> r.err]
    /\ UNCHANGED <<gvars, hvars, gen, dom, dn>>

\* the caller drops the result
FindPathClose ==
    /\ fp.pc = "done"
    /\ fp' = NoFp
    /\ UNCHANGED <<gvars, hvars, gen, dom, dn>>

NextPath == Build \/ FindPath \/ FindPathClose

SpecPath == Init /\ [][NextPath]_vars

\* ------------------------------------------- _compute_generic_dominators
\* the frame of compute_dominators(head) while set(reachable_cb(head)) is
\* being collected: reachable_sons, predecessors_iter, successors_iter
dominators_frame(head) ==
    [pc |-> "reach", kind |-> "dom", head |-> head,
     reach |-> "succ", prev |-> "pred", next |-> "succ",
     nodes |-> {}, dominators |-> EmptyDict, todo |-> {}]

\* compute_postdominators with the callbacks of compute_dominators for
\* prev_cb and next_cb
postdominators_frame_swapped(leaf) ==
    [pc |-> "reach", kind |-> "postdom", head |-> leaf,
     reach |-> "pred", prev |-> "pred", next |-> "succ",
     nodes |-> {}, dominators |-> EmptyDict, todo |-> {}]

\* the frame of compute_postdominators(leaf): reachable_parents,
\* successors_iter, predecessors_iter
postdominators_frame(leaf) ==
    [pc |-> "reach", kind |-> "postdom", head |-> leaf,
     reach |-> "pred", prev |-> "succ", next |-> "pred",
     nodes |-> {}, dominators |-> EmptyDict, todo |-> {}]

\* dominators_init with "dominators[node] = set()" for
\* "dominators[node] = set(nodes)"
dominators_init_empty(f, reached) ==
    [f EXCEPT !.pc = "run",
              !.nodes = reached,
              !.dominators = DictPut([n \in reached |-> {}], f.head, {f.head}),
              !.todo = reached]

\* the statements from "nodes = set(...)" to "todo = set(nodes)", with
\* reached the nodes that reachable_cb(head) has yielded
dominators_init(f, reached) ==
    [f EXCEPT !.pc = "run",
              !.nodes = reached,
              !.dominators = DictPut([n \in reached |-> reached], f.head, {f.head}),
              !.todo = reached]

\* new_dom with the loop over next_cb(node) for the loop over prev_cb(node)
new_dom_next_cb(g, f, node) ==
    LET ps == {p \in Range(neighbours(g, f.next, node)) : p \in f.nodes}
    IN  IF ps = {} THEN [none |-> TRUE, set |-> {}]
        ELSE [none |-> FALSE,
              set |-> {d \in Node : \A p \in ps : d \in f.dominators[p]}]

\* the loop over prev_cb(node): the intersection of the dominators of the
\* predecessors that are in nodes, or None when there is none
new_dom(g, f, node) ==
    LET ps == {p \in Range(neighbours(g, f.prev, node)) : p \in f.nodes}
    IN  IF ps = {} THEN [none |-> TRUE, set |-> {}]
        ELSE [none |-> FALSE,
              set |-> {d \in Node : \A p \in ps : d \in f.dominators[p]}]

\* dominators_step without the test "if node == head: continue"
dominators_step_no_head_test(g, f, node) ==
    LET popped == [f EXCEPT !.todo = f.todo \ {node}]
        nd == new_dom(g, f, node)
        nds == nd.set \cup {node}
    IN  IF nd.none THEN [popped EXCEPT !.pc = "AssertionError"]
        ELSE IF node \notin DOMAIN f.dominators THEN [popped EXCEPT !.pc = "KeyError"]
        ELSE IF nds = f.dominators[node] THEN popped
        ELSE [popped EXCEPT !.dominators[node] = nds,
                            !.todo = popped.todo \cup Range(neighbours(g, f.next, node))]

\* dominators_step without the loop "for succ in next_cb(node): todo.add(succ)"
dominators_step_no_push(g, f, node) ==
    LET popped == [f EXCEPT !.todo = f.todo \ {node}]
        nd == new_dom(g, f, node)
        nds == nd.set \cup {node}
    IN  IF node = f.head THEN popped
        ELSE IF nd.none THEN [popped EXCEPT !.pc = "AssertionError"]
        ELSE IF node \notin DOMAIN f.dominators THEN [popped EXCEPT !.pc = "KeyError"]
        ELSE IF nds = f.dominators[node] THEN popped
        ELSE [popped EXCEPT !.dominators[node] = nds]

\* one turn of "while todo" with node the element that todo.pop() returns
dominators_step(g, f, node) ==
    LET popped == [f EXCEPT !.todo = f.todo \ {node}]
        nd == new_dom(g, f, node)
        nds == nd.set \cup {node}
    IN  IF node = f.head THEN popped
        ELSE IF nd.none THEN [popped EXCEPT !.pc = "AssertionError"]
        ELSE IF node \notin DOMAIN f.dominators THEN [popped EXCEPT !.pc = "KeyError"]
        ELSE IF nds = f.dominators[node] THEN popped
        ELSE [popped EXCEPT !.dominators[node] = nds,
                            !.todo = popped.todo \cup Range(neighbours(g, f.next, node))]

\* compute_dominators(head) / compute_postdominators(leaf) is called
DomStart == \E h \in Node : \E f \in {dominators_frame(h), postdominators_frame(h)} :
    /\ Idle
    /\ dom' = f
    /\ gen' = reachable_nodes(h, f.reach)
    /\ UNCHANGED <<gvars, hvars, fp, dn>>

\* set(reachable_cb(head)) has exhausted the generator
DomInit ==
    /\ dom.pc = "reach"
    /\ gen.pc = "done"
    /\ dom' = dominators_init(dom, Range(gen.out))
    /\ gen' = NoGen
    /\ UNCHANGED <<gvars, hvars, fp, dn>>

\* one turn of the work-list loop
DomStep == \E node \in dom.todo :
    /\ dom.pc = "run"
    /\ dom' = dominators_step(Self, dom, node)
    /\ UNCHANGED <<gvars, hvars, gen, fp, dn>>

\* todo is empty: the mapping is returned
DomEnd ==
    /\ dom.pc = "run"
    /\ dom.todo = {}
    /\ dom' = [dom EXCEPT !.pc = "done"]
    /\ UNCHANGED <<gvars, hvars, gen, fp, dn>>

\* the caller drops the result (or the exception)
DomClose ==
    /\ dom.pc \in {"done", "AssertionError", "KeyError"}
    /\ dom' = NoDom
    /\ UNCHANGED <<gvars, hvars, gen, fp, dn>>

NextDom == Build \/ DomStart \/ ReachStep \/ ReachEnd \/ DomInit
              \/ DomStep \/ DomEnd \/ DomClose

SpecDom == Init /\ [][NextDom]_vars
              /\ WF_vars(ReachStep \/ ReachEnd \/ DomInit \/ DomStep \/ DomEnd)

\* the call run to its end as a function of the graph, todo.pop() returning
\* the least node of the set
Pop(S) == CHOOSE x \in S : \A y \in S : x <= y

RECURSIVE run_reachable(_, _)
run_reachable(g, f) ==
    IF f.todo = {} THEN f
    ELSE run_reachable(g, reachable_step(g, f, Pop(f.todo)))

RECURSIVE run_dominators(_, _)
run_dominators(g, f) ==
    IF f.pc /= "run" THEN f
    ELSE IF f.todo = {} THEN [f EXCEPT !.pc = "done"]
    ELSE run_dominators(g, dominators_step(g, f, Pop(f.todo)))

\* g.compute_dominators(head)
compute_dominators(g, head) ==
    LET f == dominators_frame(head)
        reached == Range(run_reachable(g, reachable_nodes(head, f.reach)).out)
    IN  run_dominators(g, dominators_init(f, reached))

\* a graph with the nodes of g and every edge of g reversed, built with
\* add_node and add_edge
RECURSIVE add_reversed(_, _)
add_reversed(g, es) ==
    IF es = <<>> THEN g
    ELSE add_reversed(add_edge(g, es[1][2], es[1][1]).g, Tail(es))

Reversed(g) ==
    add_reversed([nodes |-> g.nodes, edges |-> <<>>,
                  succ |-> [n \in g.nodes |-> <<>>],
                  pred |-> [n \in g.nodes |-> <<>>]], g.edges)

\* ------------------------------------------------- del_node, step by step
\* del_node(node) is called: the first statement, "if node in self._nodes:
\* self._nodes.remove(node)", is executed
DelNodeStart == \E node \in Node :
    /\ Idle
    /\ nodes' = IF node \in nodes THEN nodes \ {node} ELSE nodes
    /\ dn' = [pc |-> "removed", node |-> node, todo |-> <<>>, g |-> Self]
    /\ UNCHANGED <<edges, nodes_succ, nodes_pred, hvars, gen, dom, fp>>

\* "for pred in self.predecessors(node)" is entered: the list of the
\* predecessors is built
DelNodePreds ==
    /\ dn.pc = "removed"
    /\ dn' = [dn EXCEPT !.pc = "preds", !.todo = predecessors(Self, dn.node)]
    /\ UNCHANGED <<gvars, hvars, gen, dom, fp>>

\* one turn of a loop: self.del_edge(pred, node) or self.del_edge(node, succ)
DelNodeEdge ==
    /\ dn.pc \in {"preds", "succs"}
    /\ dn.todo /= <<>>
    /\ LET r == IF dn.pc = "preds"
                THEN del_edge(Self, dn.todo[1], dn.node)
                ELSE del_edge(Self, dn.node, dn.todo[1])
       IN  /\ nodes' = r.g.nodes
           /\ edges' = r.g.edges
           /\ nodes_succ' = r.g.succ
           /\ nodes_pred' = r.g.pred
           /\ dn' = IF r.err /= NoErr
                    THEN [dn EXCEPT !.pc = r.err]
                    ELSE [dn EXCEPT !.todo = Tail(dn.todo)]
    /\ UNCHANGED <<hvars, gen, dom, fp>>

\* the first loop is over and "for succ in self.successors(node)" is
\* entered: the list of the successors is built
DelNodeSuccs ==
    /\ dn.pc = "preds"
    /\ dn.todo = <<>>
    /\ dn' = [dn EXCEPT !.pc = "succs", !.todo = successors(Self, dn.node)]
    /\ UNCHANGED <<gvars, hvars, gen, dom, fp>>

\* the second loop is over: del_node returns
DelNodeEnd ==
    /\ dn.pc = "succs"
    /\ dn.todo = <<>>
    /\ dn' = [dn EXCEPT !.pc = "done"]
    /\ UNCHANGED <<gvars, hvars, gen, dom, fp>>

\* the caller goes on (after the return, or the exception of a del_edge)
DelNodeClose ==
    /\ dn.pc \in {"done", "ValueError", "KeyError"}
    /\ dn' = NoDel
    /\ UNCHANGED <<gvars, hvars, gen, dom, fp>>

NextDel == Build \/ DelNodeStart \/ DelNodePreds \/ DelNodeEdge
              \/ DelNodeSuccs \/ DelNodeEnd \/ DelNodeClose

SpecDel == Init /\ [][NextDel]_vars

\* ============================================================= properties
\* the sequences of k nodes, k <= NumNodes, that start at a, end at b and
\* follow an edge of edges() at every step: the paths from a to b in which
\* no node need occur twice
Walks(g, a, b) ==
    {w \in UNION {[1..k -> Node] : k \in 1..NumNodes} :
        /\ w[1] = a
        /\ w[Len(w)] = b
        /\ \A i \in 1..(Len(w) - 1) : In(<<w[i], w[i + 1]>>, g.edges)}

\* the nodes that every path from head to n passes through
OnEveryPath(g, head, n) ==
    {d \in Node : \A w \in Walks(g, head, n) : d \in Range(w)}

\* the call has ended, with a result or an exception
DomEnded == dom.pc \in {"done", "AssertionError", "KeyError"}

C1_WitnessMerge ==
    /\ dom.pc = "done"
    /\ dom.kind = "dom"
    /\ \E a, c \in Node \ {dom.head} :
          /\ a /= c
          /\ Range(edges) = {<<dom.head, a>>, <<a, c>>, <<dom.head, c>>}
          /\ dom.dominators[c] = {dom.head, c}
          /\ dom.dominators[a] = {dom.head, a}

\* compute_dominators(head) has returned on a graph with a cycle through head
C1_WitnessCycle ==
    /\ dom.pc = "done"
    /\ dom.kind = "dom"
    /\ \E a, b \in Node \ {dom.head} :
          /\ a /= b
          /\ Range(edges) = {<<dom.head, a>>, <<a, b>>, <<b, dom.head>>}

\* the list as a multiset: how often each node occurs in it
AsBag(lst) == [x \in Node |-> Count(x, lst)]

\* the node of the last call (add_node, del_node) or its edge (the edge calls)
LastEdge == <<last.src, last.dst>>

\* C2: after any sequence of calls, for every pair (a, b) the number of
\* (a, b) in edges() equals the number of b in successors(a) and the number
\* of a in predecessors(b).
C2_InSync ==
    \A a, b \in Node :
        /\ Count(<<a, b>>, edges) = Count(b, successors(Self, a))
        /\ Count(<<a, b>>, edges) = Count(a, predecessors(Self, b))

\* a del_edge or del_node has just removed edges from a graph with parallel
\* edges, and edges are left
C2_Witness ==
    /\ last.op \in {"del_edge", "del_node"}
    /\ last.err = NoErr
    /\ \E a, b \in Node : Count(<<a, b>>, before.edges) = 2
    /\ Len(edges) < Len(before.edges)
    /\ edges /= <<>>

\* C3: after del_node(n) returns, n is not in nodes(), no edge has n as
\* source or destination, and n is in no successors or predecessors list.
C3_DelNodeCascades ==
    last.op = "del_node" =>
        /\ last.err = NoErr
        /\ last.src \notin nodes
        /\ \A i \in 1..Len(edges) : edges[i][1] /= last.src /\ edges[i][2] /= last.src
        /\ \A x \in Node : /\ ~In(last.src, successors(Self, x))
                           /\ ~In(last.src, predecessors(Self, x))

\* del_node(n) of a node with a self-loop that is also both predecessor
\* and successor of another node
C3_Witness ==
    /\ last.op = "del_node"
    /\ In(<<last.src, last.src>>, before.edges)
    /\ \E m \in Node \ {last.src} :
          In(<<last.src, m>>, before.edges) /\ In(<<m, last.src>>, before.edges)

\* del_node(n) of a node with parallel edges
C3_WitnessParallel ==
    /\ last.op = "del_node"
    /\ \E m \in Node : \/ Count(<<last.src, m>>, before.edges) >= 2
                       \/ Count(<<m, last.src>>, before.edges) >= 2

\* C4: compute_postdominators(leaf) on G ends as compute_dominators(leaf)
\* does on the graph with the nodes of G and every edge of G reversed, and
\* returns the same mapping.
C4_PostdomMirror ==
    (DomEnded /\ dom.kind = "postdom") =>
        LET r == compute_dominators(Reversed(Self), dom.head)
        IN  /\ dom.pc = r.pc
            /\ dom.dominators = r.dominators

\* compute_postdominators(leaf) has returned on a graph where a node other
\* than the leaf postdominates another one and a node reaches the leaf by
\* two paths
C4_Witness ==
    /\ dom.pc = "done"
    /\ dom.kind = "postdom"
    /\ \E a, b \in Node \ {dom.head} :
          /\ a /= b
          /\ Range(edges) = {<<a, b>>, <<b, dom.head>>, <<a, dom.head>>}
          /\ dom.dominators[a] = {a, dom.head}
          /\ dom.dominators[b] = {b, dom.head}

\* the nodes at i steps or fewer from h along the callback cb
RECURSIVE Within(_, _, _, _)
Within(g, cb, h, i) ==
    IF i = 0 THEN {h}
    ELSE LET s == Within(g, cb, h, i - 1)
         IN  s \cup {y \in Node : \E x \in s : In(y, neighbours(g, cb, x))}

\* the transitive closure of successors (cb = "succ") or predecessors
\* (cb = "pred") starting at h
Closure(g, cb, h) == Within(g, cb, h, NumNodes)

\* C5: on every graph and for every node h, registered or not, the
\* enumeration reachable_sons(h) finishes, and has then yielded h exactly
\* once and every other node exactly once iff it is in the transitive
\* closure of successors starting at h; reachable_parents(l) likewise over
\* predecessors.
C5_Reachable ==
    /\ [](gen.pc = "done" =>
            \A n \in Node :
                Count(n, gen.out) =
                    IF n \in Closure(Self, gen.cb, gen.head) THEN 1 ELSE 0)
    /\ (gen.pc = "run" ~> gen.pc = "done")

\* an enumeration from a node on a cycle, with a node outside the closure,
\* has finished
C5_Witness ==
    /\ gen.pc = "done"
    /\ Len(gen.out) = 2
    /\ \E n \in Node \ {gen.head} :
          /\ In(n, neighbours(Self, gen.cb, gen.head))
          /\ In(gen.head, neighbours(Self, gen.cb, n))
    /\ nodes \ Range(gen.out) /= {}

\* an enumeration from an unregistered node has finished
C5_WitnessUnregistered ==
    /\ gen.pc = "done"
    /\ gen.head \notin DOMAIN nodes_succ
    /\ edges /= <<>>

\* C6: find_path(src, dst, cycles_count = k) terminates on every graph, and
\* no node occurs more than k + 1 times in a returned path; with k = 0 the
\* nodes of every returned path are pairwise distinct.
C6_PathBudget ==
    fp.pc = "done" =>
        /\ fp.err = NoErr
        /\ \A i \in 1..Len(fp.out) : \A n \in Node :
              Count(n, fp.out[i]) <= fp.cycles_count + 1

\* find_path with cycles_count = 0 has returned a path through an
\* intermediate node that has a self-loop
C6_Witness ==
    /\ fp.pc = "done"
    /\ fp.cycles_count = 0
    /\ \E i \in 1..Len(fp.out) : \E n \in Range(fp.out[i]) \ {fp.src, fp.dst} :
          In(<<n, n>>, edges)

\* find_path with cycles_count = 1 has returned a path in which a node
\* occurs twice
C6_WitnessTwice ==
    /\ fp.pc = "done"
    /\ fp.cycles_count = 1
    /\ \E i \in 1..Len(fp.out) : \E n \in Node : Count(n, fp.out[i]) = 2

\* C7 as stated: no path occurs more than once in what find_path(src, dst)
\* returns, on graphs with parallel edges too.
C7_PathsDistinct ==
    fp.pc = "done" =>
        \A i, j \in 1..Len(fp.out) : i /= j => fp.out[i] /= fp.out[j]

\* the number of ways to pick one edge of edges() for every step of path
RECURSIVE EdgeChoices(_, _)
EdgeChoices(es, path) ==
    IF Len(path) <= 1 THEN 1
    ELSE Count(<<path[1], path[2]>>, es) * EdgeChoices(es, Tail(path))

\* C7 amended: a path occurs in what find_path(src, dst) returns once for
\* every choice of one edge of edges() for each of its steps; hence no path
\* occurs more than once unless it follows parallel edges, and on a graph
\* without parallel edges no path occurs more than once.
C7_PathsOncePerEdgeChoice ==
    fp.pc = "done" =>
        \A i \in 1..Len(fp.out) :
            Count(fp.out[i], fp.out) = EdgeChoices(edges, fp.out[i])

\* find_path has returned several paths, one of them twice, on a graph
\* with parallel edges
C7_Witness ==
    /\ fp.pc = "done"
    /\ \E i, j \in 1..Len(fp.out) : i /= j /\ fp.out[i] = fp.out[j]
    /\ \E i, j \in 1..Len(fp.out) : fp.out[i] /= fp.out[j]

\* find_path has returned several paths on a graph without parallel edges
C7_WitnessSimple ==
    /\ fp.pc = "done"
    /\ Len(fp.out) >= 2
    /\ \A a, b \in Node : Count(<<a, b>>, edges) <= 1

\* the last two calls were add_edge(a, b) then del_edge(a, b)
AddThenDel == pair.call.op = "add_edge" /\ last.op = "del_edge"

\* the last two calls were add_uniq_edge(a, b) twice
UniqTwice == pair.call.op = "add_uniq_edge" /\ last.op = "add_uniq_edge"

\* C8 as stated: after add_edge(a, b), b is in successors(a) and a is in
\* predecessors(b); a following del_edge(a, b) leaves successors(x) and
\* predecessors(x) of every node x equal, as ordered sequences, to their
\* values before the add_edge.
C8_RestoresExactly ==
    /\ last.op = "add_edge" =>
          /\ In(last.dst, successors(Self, last.src))
          /\ In(last.src, predecessors(Self, last.dst))
    /\ AddThenDel =>
          \A x \in Node : /\ successors(Self, x) = successors(pair.g, x)
                          /\ predecessors(Self, x) = predecessors(pair.g, x)

\* C8 amended: after add_edge(a, b), b is in successors(a) and a is in
\* predecessors(b); a following del_edge(a, b) succeeds and restores
\* successors(x) and predecessors(x) of every node x as multisets, restores
\* them as ordered sequences for every list but successors(a) and
\* predecessors(b), and restores those two as sequences as well when no
\* (a, b) edge existed before the add_edge (del_edge removes the first
\* occurrence, add_edge appends).
C8_RestoresAsBags ==
    /\ last.op = "add_edge" =>
          /\ last.err = NoErr
          /\ In(last.dst, successors(Self, last.src))
          /\ In(last.src, predecessors(Self, last.dst))
    /\ AddThenDel =>
          /\ last.err = NoErr
          /\ \A x \in Node :
                /\ AsBag(successors(Self, x)) = AsBag(successors(pair.g, x))
                /\ AsBag(predecessors(Self, x)) = AsBag(predecessors(pair.g, x))
                /\ (x /= last.src \/ ~In(LastEdge, pair.g.edges)) =>
                      successors(Self, x) = successors(pair.g, x)
                /\ (x /= last.dst \/ ~In(LastEdge, pair.g.edges)) =>
                      predecessors(Self, x) = predecessors(pair.g, x)

\* add_edge(a, b) then del_edge(a, b) on a graph that already had an (a, b)
\* edge followed by another edge out of a
C8_Witness ==
    /\ AddThenDel
    /\ In(LastEdge, pair.g.edges)
    /\ successors(pair.g, last.src) /= successors(Self, last.src)

\* add_edge(a, b) then del_edge(a, b) on a graph without an (a, b) edge in
\* which a and b have other edges
C8_WitnessFresh ==
    /\ AddThenDel
    /\ ~In(LastEdge, pair.g.edges)
    /\ successors(pair.g, last.src) /= <<>>
    /\ predecessors(pair.g, last.dst) /= <<>>

\* C9 as stated: calling add_uniq_edge(a, b) twice yields exactly one
\* (a, b) edge in edges(); add_uniq_edge(a, b) on a graph that has an
\* (a, b) edge changes nothing, and on a graph without one it behaves as
\* add_edge(a, b).
C9_UniqExactlyOne ==
    /\ UniqTwice => Count(LastEdge, edges) = 1
    /\ last.op = "add_uniq_edge" =>
          IF In(LastEdge, before.edges)
          THEN Self = before /\ last.err = NoErr
          ELSE Ok(Self) = add_edge(before, last.src, last.dst)

\* C9 amended: the second of two add_uniq_edge(a, b) calls changes nothing,
\* and after them edges() holds exactly one (a, b) edge unless the graph
\* held parallel (a, b) edges before the first call, which are all kept;
\* add_uniq_edge(a, b) on a graph that has an (a, b) edge changes nothing,
\* and on a graph without one it behaves as add_edge(a, b).
C9_UniqIdempotent ==
    /\ UniqTwice =>
          /\ Self = before
          /\ last.err = NoErr
          /\ Count(LastEdge, edges) =
                IF Count(LastEdge, pair.g.edges) = 0
                THEN 1 ELSE Count(LastEdge, pair.g.edges)
    /\ last.op = "add_uniq_edge" =>
          IF In(LastEdge, before.edges)
          THEN Self = before /\ last.err = NoErr
          ELSE Ok(Self) = add_edge(before, last.src, last.dst)

\* add_uniq_edge(a, a) twice on a graph that has edges and from which a
\* was deleted with del_node
C9_Witness ==
    /\ UniqTwice
    /\ last.src = last.dst
    /\ last.src \in DOMAIN pair.g.succ
    /\ last.src \notin pair.g.nodes
    /\ pair.g.edges /= <<>>
    /\ Count(LastEdge, edges) = 1

\* add_uniq_edge(a, b) twice on a graph with two parallel (a, b) edges
C9_WitnessParallel ==
    /\ UniqTwice
    /\ Count(LastEdge, pair.g.edges) = 2

\* C10: del_edge(src, dst) on a graph with no (src, dst) edge raises, and
\* leaves the node set, the edge list and both indices as they were.
C10_DelEdgeMissing ==
    (last.op = "del_edge" /\ ~In(LastEdge, before.edges)) =>
        /\ last.err /= NoErr
        /\ Self = before

\* del_edge of a missing edge whose source is not a registered node, on a
\* graph that has edges
C10_Witness ==
    /\ last.op = "del_edge"
    /\ ~In(LastEdge, before.edges)
    /\ last.src \notin before.nodes
    /\ before.edges /= <<>>


\* C11: after any sequence of add_node, add_edge, add_uniq_edge, del_edge
\* and del_node calls, the source and the destination of every edge of
\* edges() are in nodes().
C11_EndpointsRegistered ==
    \A i \in 1..Len(edges) : edges[i][1] \in nodes /\ edges[i][2] \in nodes

\* del_node has removed a node that had edges, other edges are left, and
\* an edge was then added whose destination is the removed node
C11_Witness ==
    /\ last.op \in {"add_edge", "add_uniq_edge"}
    /\ last.err = NoErr
    /\ last.src /= last.dst
    /\ last.dst \in DOMAIN before.pred
    /\ last.dst \notin before.nodes
    /\ before.edges /= <<>>

\* del_node has removed a node with edges from a graph that keeps edges
C11_WitnessDelNode ==
    /\ last.op = "del_node"
    /\ Len(edges) < Len(before.edges)
    /\ edges /= <<>>

\* C12 as stated: after add_node(n), whether or not n was already in the
\* graph and already had edges, n is in nodes(), successors(n) = [] and
\* predecessors(n) = [].
C12_AddNodeEmpty ==
    last.op = "add_node" =>
        /\ last.src \in nodes
        /\ successors(Self, last.src) = <<>>
        /\ predecessors(Self, last.src) = <<>>

\* C12 amended: after add_node(n), n is in nodes(); when n was not in
\* nodes() before the call, successors(n) = [] and predecessors(n) = [] and
\* nothing else has changed; when n was in nodes() the call changes
\* nothing, so successors(n) and predecessors(n) keep the edges of n.
C12_AddNodeIdempotent ==
    last.op = "add_node" =>
        /\ last.err = NoErr
        /\ last.src \in nodes
        /\ edges = before.edges
        /\ nodes = before.nodes \cup {last.src}
        /\ \A x \in Node \ {last.src} :
              /\ successors(Self, x) = successors(before, x)
              /\ predecessors(Self, x) = predecessors(before, x)
        /\ IF last.src \in before.nodes
           THEN Self = before
           ELSE /\ successors(Self, last.src) = <<>>
                /\ predecessors(Self, last.src) = <<>>

\* add_node(n) on a graph where n is registered and has both an edge to
\* and an edge from another node
C12_Witness ==
    /\ last.op = "add_node"
    /\ last.src \in before.nodes
    /\ \E m \in Node \ {last.src} :
          /\ In(m, successors(Self, last.src))
          /\ In(m, predecessors(Self, last.src))

\* add_node(n) of a node that del_node had removed, on a graph with edges
C12_WitnessReadded ==
    /\ last.op = "add_node"
    /\ last.src \notin before.nodes
    /\ last.src \in DOMAIN before.succ
    /\ edges /= <<>>

\* C13: for a fixed graph and head, compute_dominators(head) ends in the
\* same way and returns the same mapping whatever node todo.pop() returns
\* at each turn and in whatever order reachable_sons(head) yields the
\* nodes: every run ends as the run that always pops the least node.
C13_Deterministic ==
    (DomEnded /\ dom.kind = "dom") =>
        LET r == compute_dominators(Self, dom.head)
        IN  /\ dom.pc = r.pc
            /\ dom.nodes = r.nodes
            /\ dom.dominators = r.dominators

\* compute_dominators(head) has returned on head -> a -> b -> a, where the
\* set of a shrinks or not at its first turn according to the order in
\* which a and b are popped
C13_Witness ==
    /\ dom.pc = "done"
    /\ dom.kind = "dom"
    /\ \E a, b \in Node \ {dom.head} :
          /\ a /= b
          /\ Range(edges) = {<<dom.head, a>>, <<a, b>>, <<b, a>>}
          /\ dom.dominators[a] = {dom.head, a}
          /\ dom.dominators[b] = {dom.head, a, b}

\* the destinations of the edges of es with source n, in the order of es
DstOf(es, n) ==
    LET keep == SelectSeq(es, LAMBDA e : e[1] = n)
    IN  [i \in 1..Len(keep) |-> keep[i][2]]

\* the sources of the edges of es with destination n, in the order of es
SrcOf(es, n) ==
    LET keep == SelectSeq(es, LAMBDA e : e[2] = n)
    IN  [i \in 1..Len(keep) |-> keep[i][1]]

\* C14: after any sequence of mutations and for every node n, successors(n)
\* is the sequence of the destinations of the edges with source n in the
\* order of edges(), and predecessors(n) the sequence of the sources of the
\* edges with destination n in that order; for a node that is not in
\* nodes() (never added, or removed by del_node) both are empty.
C14_AdjacencyInEdgeOrder ==
    \A n \in Node :
        /\ successors(Self, n) = DstOf(edges, n)
        /\ predecessors(Self, n) = SrcOf(edges, n)
        /\ n \notin nodes =>
              successors(Self, n) = <<>> /\ predecessors(Self, n) = <<>>

\* del_edge(a, b) has removed the first of two (a, b) edges that had
\* another edge out of a between them, on an object with a node that was
\* never added and a node that del_node removed
C14_Witness ==
    /\ last.op = "del_edge"
    /\ last.err = NoErr
    /\ Len(before.edges) = 3
    /\ before.edges[1] = LastEdge
    /\ before.edges[3] = LastEdge
    /\ before.edges[2][1] = last.src
    /\ before.edges[2][2] /= last.dst
    /\ \E n \in Node : n \notin DOMAIN nodes_succ
    /\ \E n \in Node : n \in DOMAIN nodes_succ /\ n \notin nodes

\* C15: del_node(n) on a graph in which n is not in nodes() (never added,
\* or already deleted) raises nothing and leaves the node set, the edge
\* list and both indices as they were; hence a second del_node(n) right
\* after a del_node(n) changes nothing.
C15_DelNodeAbsent ==
    /\ (last.op = "del_node" /\ last.src \notin before.nodes) =>
          /\ last.err = NoErr
          /\ Self = before
    /\ last.op = "del_node" => del_node(Self, last.src) = Ok(Self)

\* del_node(n) of a node that an earlier del_node had removed, on a graph
\* that has edges
C15_Witness ==
    /\ last.op = "del_node"
    /\ last.src \notin before.nodes
    /\ last.src \in DOMAIN before.succ
    /\ before.edges /= <<>>

\* del_node(n) of a node that was never added, on a graph that has edges
C15_WitnessNeverAdded ==
    /\ last.op = "del_node"
    /\ last.src \notin DOMAIN before.succ
    /\ before.edges /= <<>>

\* del_node is running: its first statement is done and it has not returned
InDelNode == dn.pc \in {"removed", "preds", "succs"}

\* an edge of edges() has n as source or destination
Referenced(n) == \E i \in 1..Len(edges) : edges[i][1] = n \/ edges[i][2] = n

\* C16: within del_node(n) the edges (p, n) and (n, s) are removed first and
\* n is removed from the node set last: in no state of a running del_node
\* is n absent from nodes() while an edge of edges() references n.
C16_EdgesBeforeNode ==
    InDelNode => ~(dn.node \notin nodes /\ Referenced(dn.node))

\* what del_node does: n leaves nodes() at the first statement, while all
\* its edges are still in edges(); the edges are then removed one at a
\* time, n being absent throughout; and del_node returns without exception
\* the object that del_node as one step yields.
C16_NodeBeforeEdges ==
    /\ dn.pc \in {"removed", "preds", "succs", "done"} => dn.node \notin nodes
    /\ dn.pc = "removed" => edges = dn.g.edges
    /\ dn.pc \notin {"ValueError", "KeyError"}
    /\ dn.pc = "done" => Ok(Self) = del_node(dn.g, dn.node)

\* del_node(n) is running on a node with edges to and from another node:
\* n is out of nodes() and both edges are in edges()
C16_Witness ==
    /\ dn.pc = "preds"
    /\ dn.node \in dn.g.nodes
    /\ dn.node \notin nodes
    /\ \E m \in Node \ {dn.node} :
          In(<<m, dn.node>>, edges) /\ In(<<dn.node, m>>, edges)

\* C17: on every graph made by the mutation calls and for every start node,
\* registered or not, "assert(new_dom is not None)" never fails in
\* compute_dominators or compute_postdominators: every node of the
\* work-list other than the start node has a "previous" neighbour in the
\* reachable universe, and the work-list holds nodes of the universe only
\* (which are the keys of dominators).
C17_AssertionHolds ==
    /\ dom.pc \notin {"AssertionError", "KeyError"}
    /\ dom.pc = "run" =>
          /\ dom.todo \subseteq dom.nodes
          /\ dom.nodes = DOMAIN dom.dominators
          /\ \A n \in dom.todo \ {dom.head} : ~new_dom(Self, dom, n).none

\* the work-list of a compute_postdominators call holds a node whose
\* "previous" neighbours are one in the universe and one outside it, the
\* latter skipped by "if not pred in nodes: continue"
C17_Witness ==
    /\ dom.pc = "run"
    /\ dom.kind = "postdom"
    /\ \E n \in dom.todo \ {dom.head} :
          /\ \E p \in Range(neighbours(Self, dom.prev, n)) : p \notin dom.nodes
          /\ \E p \in Range(neighbours(Self, dom.prev, n)) : p \in dom.nodes

\* compute_dominators has returned for a start node that was never added,
\* on a graph that has edges
C17_WitnessUnregistered ==
    /\ dom.pc = "done"
    /\ dom.kind = "dom"
    /\ dom.head \notin DOMAIN nodes_succ
    /\ edges /= <<>>

\* a node pushed back on the work-list by an update is being examined again
C17_WitnessPushed ==
    /\ dom.pc = "run"
    /\ \E n \in dom.todo \ {dom.head} : dom.dominators[n] /= dom.nodes

\* a turn of the work-list loop leaves every candidate set as it was or
\* makes it a proper subset of what it was
Shrinks ==
    (dom.pc = "run" /\ dom'.pc = "run") =>
        \A n \in dom.nodes : dom'.dominators[n] \subseteq dom.dominators[n]

\* every node but the start has the set {node} united with the intersection
\* of the sets of its "previous" neighbours that are in the universe
Stable ==
    \A n \in dom.nodes \ {dom.head} :
        /\ ~new_dom(Self, dom, n).none
        /\ dom.dominators[n] = new_dom(Self, dom, n).set \cup {n}

SimplePaths(g, a, b) ==
    {w \in Walks(g, a, b) : \A i, j \in 1..Len(w) : i /= j => w[i] /= w[j]}

\* C19: with cycles_count = 0 the set of the paths that find_path(src, dst)
\* returns is the set of the simple paths from src to dst; the result is
\* [[src]] when src = dst, whether src is on a cycle or not registered,
\* and it is empty when dst is not reachable from src.
C19_SimplePaths ==
    (fp.pc = "done" /\ fp.cycles_count = 0) =>
        /\ fp.err = NoErr
        /\ Range(fp.out) = SimplePaths(Self, fp.src, fp.dst)
        /\ fp.src = fp.dst => fp.out = << <<fp.src>> >>
        /\ fp.dst \notin Closure(Self, "succ", fp.src) => fp.out = <<>>

\* find_path with cycles_count = 0 has returned a path of two nodes and a
\* path of three nodes
C19_Witness ==
    /\ fp.pc = "done"
    /\ fp.cycles_count = 0
    /\ \E i, j \in 1..Len(fp.out) : Len(fp.out[i]) = 2 /\ Len(fp.out[j]) = 3

\* find_path(src, src) with cycles_count = 0 has returned for a node on a
\* cycle through another node
C19_WitnessCycle ==
    /\ fp.pc = "done"
    /\ fp.cycles_count = 0
    /\ fp.src = fp.dst
    /\ \E n \in Node \ {fp.src} :
          In(<<fp.src, n>>, edges) /\ In(<<n, fp.src>>, edges)

\* find_path(src, src) with cycles_count = 0 has returned for a node that
\* was never added, on a graph with edges
C19_WitnessUnregistered ==
    /\ fp.pc = "done"
    /\ fp.cycles_count = 0
    /\ fp.src = fp.dst
    /\ fp.src \notin DOMAIN nodes_pred
    /\ edges /= <<>>

\* find_path with cycles_count = 0 has returned nothing for a destination
\* that has predecessors, one of them on a cycle, and is not reachable
C19_WitnessUnreachable ==
    /\ fp.pc = "done"
    /\ fp.cycles_count = 0
    /\ fp.out = <<>>
    /\ \E n, m \in Node \ {fp.src, fp.dst} :
          /\ n /= m
          /\ In(<<n, fp.dst>>, edges)
          /\ In(<<n, m>>, edges)
          /\ In(<<m, n>>, edges)

\* lst without the occurrences of n
Without(lst, n) == SelectSeq(lst, LAMBDA x : x /= n)

\* C20: del_node(n) leaves every node other than n in nodes() and every
\* edge whose source and destination both differ from n in edges(), as
\* often as before and in the same order; successors(x) and
\* predecessors(x) of every other node x are what they were without their
\* occurrences of n.
C20_DelNodeFrame ==
    last.op = "del_node" =>
        /\ nodes = before.nodes \ {last.src}
        /\ edges = SelectSeq(before.edges,
                             LAMBDA e : e[1] /= last.src /\ e[2] /= last.src)
        /\ \A x \in Node \ {last.src} :
              /\ successors(Self, x) = Without(successors(before, x), last.src)
              /\ predecessors(Self, x) = Without(predecessors(before, x), last.src)

\* del_node(n) on a graph whose edge list had an edge between two other
\* nodes in between two edges on n, one from and one to the same node x
C20_Witness ==
    /\ last.op = "del_node"
    /\ last.src \in before.nodes
    /\ Len(before.edges) = 3
    /\ \E x, y \in Node \ {last.src} :
          /\ x /= y
          /\ before.edges[2] \in {<<x, y>>, <<y, x>>}
          /\ {before.edges[1], before.edges[3]} = {<<x, last.src>>, <<last.src, x>>}

=============================================================================
